---- MODULE Spec2Model ----
(***************************************************************************)
(* Model of smalld_click: SmallDCliRunner dispatches inbound chat messages *)
(* either to a pending conversation or to a new click command run on a     *)
(* worker thread; SmallDCliRunnerContext buffers the command's output and  *)
(* blocks the worker on a Completable while it waits for a reply.          *)
(*                                                                         *)
(* Text is a sequence of symbols (one-character strings).  Each worker     *)
(* thread is a record: the fields of its SmallDCliRunnerContext, its       *)
(* position in the code (pc), and history fields that only record what     *)
(* happened (trace, emitted, flushed, posts, replies, outcome).            *)
(***************************************************************************)
EXTENDS Naturals, Sequences, FiniteSets, TLC

\* ---- bounds of the model ----
MaxTasks == 2      \* command tasks submitted to the executor
MaxOps == 2        \* echo / prompt calls made by all command bodies together
MaxMessages == 3   \* inbound messages delivered to on_message
MaxSendFailures == 1   \* sends that the transport fails

\* ---- the environment: who writes what where ----
Users == {"u1", "u2"}
PublicChannel == "ch"
PrivateChannel(user_id) == IF user_id = "u1" THEN "dm1" ELSE "dm2"
Prefix == <<"!">>
CliName == <<"c">>
Contents == { <<"!", "c">>, <<"r">>, <<"!", "c", "'">> }
Messages ==
  { [content |-> c, channel_id |-> ch, author |-> u] :
      c \in Contents, ch \in {PublicChannel, "dm1", "dm2"}, u \in Users }
InboundMessages == { m \in Messages :
      m.channel_id \in {PublicChannel, PrivateChannel(m.author)} }
Fragments == { <<>>, <<"a">> }
PromptText == <<"p">>
PromptSuffix == <<":", " ">>
ErrorText == <<"E", "\n">>

NoMsg == [content |-> <<>>, channel_id |-> "none", author |-> "none"]
NoHandle == <<0, 0>>

\* ---- str helpers ----
Whitespace == {" ", "\n"}

RECURSIVE lstrip(_)
lstrip(s) ==
  IF s # <<>> /\ Head(s) \in Whitespace THEN lstrip(Tail(s)) ELSE s

RECURSIVE rstrip(_)
rstrip(s) ==
  IF s # <<>> /\ s[Len(s)] \in Whitespace
    THEN rstrip(SubSeq(s, 1, Len(s) - 1)) ELSE s

strip(s) == rstrip(lstrip(s))

startswith(s, p) == Len(s) >= Len(p) /\ SubSeq(s, 1, Len(p)) = p

slice_from(s, n) == SubSeq(s, n + 1, Len(s))

RECURSIVE Concat(_)
Concat(chunks) ==
  IF chunks = <<>> THEN <<>> ELSE Head(chunks) \o Concat(Tail(chunks))

\* shlex.split: whitespace separates tokens, a single quote opens and closes
\* a quoted run, an unterminated quote is a ValueError (ok = FALSE).
RECURSIVE shlex_scan(_, _, _, _, _)
shlex_scan(s, tokens, cur, intoken, quoted) ==
  IF s = <<>>
    THEN IF quoted THEN [ok |-> FALSE, args |-> <<>>]
         ELSE [ok |-> TRUE,
               args |-> IF intoken THEN Append(tokens, cur) ELSE tokens]
    ELSE LET ch == Head(s) IN
         IF quoted
           THEN IF ch = "'"
                  THEN shlex_scan(Tail(s), tokens, cur, TRUE, FALSE)
                  ELSE shlex_scan(Tail(s), tokens, Append(cur, ch), TRUE, TRUE)
           ELSE IF ch = "'"
                  THEN shlex_scan(Tail(s), tokens, cur, TRUE, TRUE)
                ELSE IF ch \in Whitespace
                  THEN shlex_scan(Tail(s),
                                  IF intoken THEN Append(tokens, cur) ELSE tokens,
                                  <<>>, FALSE, FALSE)
                  ELSE shlex_scan(Tail(s), tokens, Append(cur, ch), TRUE, FALSE)

shlex_split(s) == shlex_scan(s, <<>>, <<>>, FALSE, FALSE)

\* parse_command(prefix, command): raised = the ValueError of shlex.split;
\* name = <<>> stands for None.
parse_command(prefix, command) ==
  LET cmd == lstrip(slice_from(strip(command), Len(prefix))) IN
  IF ~startswith(command, prefix) \/ cmd = <<>>
    THEN [raised |-> FALSE, name |-> <<>>, args |-> <<>>]
    ELSE LET sp == shlex_split(cmd) IN
         IF ~sp.ok
           THEN [raised |-> TRUE, name |-> <<>>, args |-> <<>>]
           ELSE [raised |-> FALSE, name |-> sp.args[1], args |-> Tail(sp.args)]

\* ---- state ----
VARIABLES
  conversations,  \* SmallDCliRunner.conversations: (user_id, channel_id) -> handle
  completions,    \* the Completables completed so far: handle -> [result, count]
  workers,        \* the tasks submitted to the executor, in submission order
  delivered,      \* number of inbound messages handled by on_message
  last            \* what on_message did with the latest message

vars == <<conversations, completions, workers, delivered, last>>

Key(user_id, channel_id) == <<user_id, channel_id>>

\* ---- SmallDCliRunnerContext ----
\* __init__: the context of the command started by msg
SmallDCliRunnerContext(msg) ==
  [ pc |-> "running",
    message |-> msg,
    channel_id |-> msg.channel_id,
    user_id |-> msg.author,
    echo_buffer |-> <<>>,
    is_safe |-> FALSE,
    handle |-> NoHandle,
    \* the call in progress: what the transport answers to its send, and
    \* whether the send raised
    send_ok |-> TRUE,
    raised |-> FALSE,
    \* history
    origin |-> msg,
    trace |-> <<>>,
    emitted |-> <<>>,
    flushed |-> <<>>,
    posts |-> <<>>,
    asks |-> 0,
    channels_created |-> 0,
    replies |-> <<>>,
    outcome |-> "none",
    logged |-> FALSE,
    leaked |-> FALSE ]

\* ensure_safe without the is_safe guard
ensure_safe_EveryTime(w) ==
  [w EXCEPT !.channel_id = PrivateChannel(w.user_id),
            !.is_safe = TRUE,
            !.channels_created = @ + 1]

\* ensure_safe: switch to a private channel with the user, once
ensure_safe(w) ==
  IF w.is_safe THEN w
  ELSE [w EXCEPT !.channel_id = PrivateChannel(w.user_id),
                 !.is_safe = TRUE,
                 !.channels_created = @ + 1]

\* flush that sends whatever the buffer holds, blank or not
flush_NoBlankCheck(w) ==
  LET content == w.echo_buffer
      w1 == [w EXCEPT !.echo_buffer = <<>>, !.flushed = Append(@, content)]
  IN [w1 EXCEPT !.posts =
        Append(@, [channel_id |-> w.channel_id, content |-> content,
                   ok |-> w.send_ok]),
                !.raised = ~w.send_ok]

\* flush that empties the buffer only after the send went through
flush_ClearAfterSend(w) ==
  LET content == w.echo_buffer
      w1 == [w EXCEPT !.flushed = Append(@, content)]
  IN IF strip(content) = <<>> THEN [w1 EXCEPT !.echo_buffer = <<>>]
     ELSE [w1 EXCEPT !.posts =
             Append(@, [channel_id |-> w.channel_id, content |-> content,
                        ok |-> w.send_ok]),
                     !.echo_buffer = IF w.send_ok THEN <<>> ELSE @,
                     !.raised = ~w.send_ok]

\* flush: take the buffer, send it unless it is blank; a send the transport
\* fails raises out of flush
flush(w) ==
  LET content == w.echo_buffer
      w1 == [w EXCEPT !.echo_buffer = <<>>, !.flushed = Append(@, content)]
  IN IF strip(content) = <<>> THEN w1
     ELSE [w1 EXCEPT !.posts =
             Append(@, [channel_id |-> w.channel_id, content |-> content,
                        ok |-> w.send_ok]),
                     !.raised = ~w.send_ok]

\* say that writes at the front of the buffer
say_Prepend(w, message, nl, do_flush) ==
  LET text == message \o (IF nl THEN <<"\n">> ELSE <<>>)
      w1 == [w EXCEPT !.echo_buffer = text \o @, !.emitted = @ \o text]
  IN IF do_flush THEN flush(w1) ELSE w1

\* say that sends every fragment at once instead of buffering it
say_AlwaysFlush(w, message, nl, do_flush) ==
  LET text == message \o (IF nl THEN <<"\n">> ELSE <<>>)
  IN flush([w EXCEPT !.echo_buffer = @ \o text, !.emitted = @ \o text])

\* say: click's echo into the buffer, then flush if asked to
say(w, message, nl, do_flush) ==
  LET text == message \o (IF nl THEN <<"\n">> ELSE <<>>)
      w1 == [w EXCEPT !.echo_buffer = @ \o text, !.emitted = @ \o text]
  IN IF do_flush THEN flush(w1) ELSE w1

\* get_reply that leaves the prompt in the buffer
get_reply_NoFlush(w, prompt) == say(w, prompt, FALSE, FALSE)

\* get_reply, first half: the prompt goes out before the wait starts
get_reply(w, prompt) == say(w, prompt, FALSE, TRUE)

\* ask: hidden input moves the conversation to a private channel first;
\* click.prompt then calls prompt_func with text + suffix
ask(w, hide_input) ==
  get_reply(IF hide_input THEN ensure_safe(w) ELSE w,
            PromptText \o PromptSuffix)

\* ---- SmallDCliRunner registry ----
add_pending(convs, user_id, channel_id, handle) ==
  [k \in DOMAIN convs \cup {Key(user_id, channel_id)} |->
     IF k = Key(user_id, channel_id) THEN handle ELSE convs[k]]

\* remove_pending that looks the entry up by channel alone
remove_pending_AnyUser(convs, user_id, channel_id) ==
  LET keys == {k \in DOMAIN convs : k[2] = channel_id} IN
  IF keys # {}
    THEN LET key == CHOOSE k \in keys : TRUE IN
         [handle |-> convs[key],
          conversations |-> [k \in DOMAIN convs \ {key} |-> convs[k]]]
    ELSE [handle |-> NoHandle, conversations |-> convs]

\* conversations.pop(key, None)
remove_pending(convs, user_id, channel_id) ==
  LET key == Key(user_id, channel_id) IN
  IF key \in DOMAIN convs
    THEN [handle |-> convs[key],
          conversations |-> [k \in DOMAIN convs \ {key} |-> convs[k]]]
    ELSE [handle |-> NoHandle, conversations |-> convs]

\* ---- Completable ----
\* complete_with: store the result, notify the thread inside wait (if any);
\* a notify with no thread inside wait wakes nobody
complete_with(st, handle, msg) ==
  LET done == st.completions
      ws == st.workers
  IN [st EXCEPT
        !.completions =
           [h \in DOMAIN done \cup {handle} |->
              IF h = handle
                THEN [result |-> msg,
                      count |-> IF h \in DOMAIN done
                                  THEN done[h].count + 1 ELSE 1]
                ELSE done[h]],
        !.workers =
           [t \in DOMAIN ws |->
              IF ws[t].handle = handle /\ ws[t].pc = "waiting"
                THEN [ws[t] EXCEPT !.pc = "notified"]
                ELSE ws[t]]]

\* on_message without the return on line 109: a message that resolved a
\* pending conversation also goes through command matching
on_message_NoReturn(st, msg) ==
  LET popped == remove_pending(st.conversations, msg.author, msg.channel_id)
      st1 == [st EXCEPT !.conversations = popped.conversations]
      st2 == IF popped.handle # NoHandle
               THEN complete_with(st1, popped.handle, msg) ELSE st1
      parsed == parse_command(Prefix, msg.content)
      report(s2, what, task) ==
        [conversations |-> s2.conversations, completions |-> s2.completions,
         workers |-> s2.workers,
         last |-> [msg |-> msg,
                   disposition |->
                     IF popped.handle # NoHandle THEN "resolved" ELSE what,
                   handle |-> popped.handle, task |-> task]]
  IN IF parsed.raised THEN report(st2, "raised", 0)
     ELSE IF parsed.name # CliName THEN report(st2, "dropped", 0)
     ELSE report([st2 EXCEPT !.workers =
                     Append(@, SmallDCliRunnerContext(msg))],
                 "started", Len(st.workers) + 1)

\* ---- SmallDCliRunner.on_message ----
\* st = [conversations, completions, workers]; the result adds what became
\* of the message: "resolved" (completed handle), "raised" (exception out of
\* the handler), "dropped", "started" (task = index of the submitted task)
on_message(st, msg) ==
  LET popped == remove_pending(st.conversations, msg.author, msg.channel_id)
      st1 == [st EXCEPT !.conversations = popped.conversations]
      parsed == parse_command(Prefix, msg.content)
      report(s2, what, handle, task) ==
        [conversations |-> s2.conversations, completions |-> s2.completions,
         workers |-> s2.workers,
         last |-> [msg |-> msg, disposition |-> what, handle |-> handle,
                   task |-> task]]
  IN IF popped.handle # NoHandle
       THEN report(complete_with(st1, popped.handle, msg), "resolved",
                   popped.handle, 0)
     ELSE IF parsed.raised
       THEN report(st1, "raised", NoHandle, 0)
     ELSE IF parsed.name # CliName
       THEN report(st1, "dropped", NoHandle, 0)
     ELSE report([st1 EXCEPT !.workers =
                     Append(@, SmallDCliRunnerContext(msg))],
                 "started", NoHandle, Len(st.workers) + 1)

\* ---- handle_command ----
\* managed_click_execution: what the except clauses do with exception exc:
\* a ClickException is shown, Exit, Abort and TimeoutError are passed over,
\* the bare except logs whatever else was raised; nothing is re-raised
managed_click_execution(w, exc) ==
  IF exc = "usage" THEN say(w, ErrorText, FALSE, FALSE)
  ELSE IF exc \in {"exit", "timeout"} THEN w
  ELSE [w EXCEPT !.logged = TRUE]

\* handle_command once the command body has ended with exc ("none" = it
\* returned): the closing echo(flush=True, nl=False) is the last statement
\* of the with body
handle_command(w, exc) ==
  LET w1 == IF exc = "none" THEN say(w, <<>>, FALSE, TRUE) ELSE w
      exc1 == IF w1.raised THEN "fault" ELSE exc
      w2 == IF exc1 = "none" THEN w1 ELSE managed_click_execution(w1, exc1)
  IN [w2 EXCEPT !.pc = "done",
                !.outcome = IF exc1 = "none" THEN "ok" ELSE exc1,
                !.send_ok = TRUE,
                !.raised = FALSE]

\* wait_for_message that leaves its entry in the registry on timeout
wait_for_message_NoDiscard(st, t, notified) ==
  LET w == st.workers[t] IN
  IF notified
    THEN LET res == st.completions[w.handle].result IN
         [st EXCEPT !.workers[t] =
            [w EXCEPT !.pc = "running", !.message = res,
                      !.replies = Append(@, res.content)]]
    ELSE [st EXCEPT !.workers[t] = handle_command(w, "timeout")]

\* wait_for_message after handle.wait returned: TRUE = notified
wait_for_message(st, t, notified) ==
  LET w == st.workers[t] IN
  IF notified
    THEN LET res == st.completions[w.handle].result IN
         [st EXCEPT !.workers[t] =
            [w EXCEPT !.pc = "running", !.message = res,
                      !.replies = Append(@, res.content)]]
    ELSE LET popped == remove_pending(st.conversations, w.user_id, w.channel_id)
         IN [st EXCEPT !.conversations = popped.conversations,
                       !.workers[t] = handle_command(w, "timeout")]

\* ---- the state machine ----
State == [conversations |-> conversations, completions |-> completions,
          workers |-> workers]

Init ==
  /\ conversations = <<>>
  /\ completions = <<>>
  /\ workers = <<>>
  /\ delivered = 0
  /\ last = [msg |-> NoMsg, disposition |-> "none", handle |-> NoHandle,
             task |-> 0]

Tasks == DOMAIN workers

\* echo and prompt calls made so far, by all the commands together
RECURSIVE OpsDone(_)
OpsDone(ws) ==
  IF ws = <<>> THEN 0
  ELSE Cardinality({i \in DOMAIN Head(ws).trace :
         Head(ws).trace[i] \in {"echo", "echo_flush", "ask", "ask_hidden"}})
       + OpsDone(Tail(ws))

\* the transport delivers an inbound message; the handler runs on the single
\* dispatch thread and is taken as one step (a waiter that times out between
\* the pop and complete_with ends as one that timed out just before the pop)
OnMessage ==
  \E msg \in InboundMessages :
    LET r == on_message(State, msg) IN
    /\ delivered < MaxMessages
    /\ Len(r.workers) <= MaxTasks
    /\ conversations' = r.conversations
    /\ completions' = r.completions
    /\ workers' = r.workers
    /\ last' = r.last
    /\ delivered' = delivered + 1

Step(t, w, op) ==
  /\ workers' = [workers EXCEPT ![t] = [w EXCEPT !.trace = Append(@, op)]]
  /\ UNCHANGED <<conversations, completions, delivered, last>>

\* sends failed so far, over all the commands
RECURSIVE FailedSends(_)
FailedSends(ws) ==
  IF ws = <<>> THEN 0
  ELSE Cardinality({i \in DOMAIN Head(ws).posts : ~Head(ws).posts[i].ok})
       + FailedSends(Tail(ws))

\* what the transport may answer to the next send
SendOutcomes ==
  IF FailedSends(workers) < MaxSendFailures THEN BOOLEAN ELSE {TRUE}

\* worker t as it makes a call during which the transport answers ok
Calling(t, ok) == [workers[t] EXCEPT !.send_ok = ok]

\* the call is over; an exception it raised was dealt with by the caller
Settled(w) == [w EXCEPT !.send_ok = TRUE, !.raised = FALSE]

\* the command calls click.echo; when the send of a flush fails the
\* exception reaches the command body, which goes on (it may raise next)
Echo(t) ==
  \E frag \in Fragments, fl \in BOOLEAN, ok \in SendOutcomes :
    /\ workers[t].pc = "running"
    /\ OpsDone(workers) < MaxOps
    /\ Step(t, Settled(say(Calling(t, ok), frag, TRUE, fl)),
            IF fl THEN "echo_flush" ELSE "echo")

\* the command calls click.prompt: the prompt is sent; when that send
\* fails get_reply raises before wait_for_message is reached
Ask(t) ==
  \E hide \in BOOLEAN, ok \in SendOutcomes :
    LET w == ask(Calling(t, ok), hide) IN
    /\ workers[t].pc = "running"
    /\ OpsDone(workers) < MaxOps
    /\ Step(t, [Settled(w) EXCEPT
                   !.pc = IF w.raised THEN "running" ELSE "prompted",
                   !.asks = @ + 1],
            IF hide THEN "ask_hidden" ELSE "ask")

\* wait_for_message line 62
AddPending(t) ==
  LET w == workers[t]
      h == <<t, w.asks>>
  IN /\ w.pc = "prompted"
     /\ conversations' = add_pending(conversations, w.user_id, w.channel_id, h)
     /\ workers' = [workers EXCEPT ![t] =
                      [w EXCEPT !.pc = "registered", !.handle = h]]
     /\ UNCHANGED <<completions, delivered, last>>

\* Completable.wait: the thread takes the condition and starts waiting
EnterWait(t) ==
  /\ workers[t].pc = "registered"
  /\ workers' = [workers EXCEPT ![t].pc = "waiting"]
  /\ UNCHANGED <<conversations, completions, delivered, last>>

\* a wait without a timeout: it ends only when notified
WaitTimesOut_Never(t) ==
  /\ workers[t].pc = "waiting"
  /\ FALSE
  /\ UNCHANGED vars

\* Completable.wait returns False: the timeout elapsed without a notify
WaitTimesOut(t) ==
  /\ workers[t].pc = "waiting"
  /\ workers' = [workers EXCEPT ![t].pc = "timedout"]
  /\ UNCHANGED <<conversations, completions, delivered, last>>

\* wait_for_message lines 63-65
ReplyReturned(t) ==
  LET r == wait_for_message(State, t, TRUE) IN
  /\ workers[t].pc = "notified"
  /\ workers' = r.workers
  /\ conversations' = r.conversations
  /\ UNCHANGED <<completions, delivered, last>>

\* wait_for_message lines 66-68, and the TimeoutError caught in handle_command
TimeoutRaised(t) ==
  LET r == wait_for_message(State, t, FALSE) IN
  /\ workers[t].pc = "timedout"
  /\ workers' = r.workers
  /\ conversations' = r.conversations
  /\ UNCHANGED <<completions, delivered, last>>

\* the command body returns; the closing flush is inside the with body, so
\* a failing send ends in the bare except
Return(t) ==
  \E ok \in SendOutcomes :
    /\ workers[t].pc = "running"
    /\ Step(t, handle_command(Calling(t, ok), "none"), "return")

\* the command body (or make_context) raises
Raise(t) ==
  \E exc \in {"usage", "exit", "fault"} :
    /\ workers[t].pc = "running"
    /\ Step(t, handle_command(workers[t], exc), exc)

\* the command calls SmallDCliRunnerContext.close(): flush, then Abort
\* (when the send fails, its exception is raised instead)
Close(t) ==
  \E ok \in SendOutcomes :
    /\ workers[t].pc = "running"
    /\ Step(t, handle_command(flush(Calling(t, ok)), "exit"), "close")

Next ==
  \/ OnMessage
  \/ \E t \in Tasks : Echo(t)
  \/ \E t \in Tasks : Ask(t)
  \/ \E t \in Tasks : AddPending(t)
  \/ \E t \in Tasks : EnterWait(t)
  \/ \E t \in Tasks : WaitTimesOut(t)
  \/ \E t \in Tasks : ReplyReturned(t)
  \/ \E t \in Tasks : TimeoutRaised(t)
  \/ \E t \in Tasks : Return(t)
  \/ \E t \in Tasks : Raise(t)
  \/ \E t \in Tasks : Close(t)

Spec == Init /\ [][Next]_vars

\* a step of the worker thread running task t
WorkerStep(t) ==
  /\ t \in Tasks
  /\ \/ Echo(t)
     \/ Ask(t)
     \/ AddPending(t)
     \/ EnterWait(t)
     \/ WaitTimesOut(t)
     \/ ReplyReturned(t)
     \/ TimeoutRaised(t)
     \/ Return(t)
     \/ Raise(t)
     \/ Close(t)

\* the executor gives every submitted task a thread that keeps running, and
\* the timeout of a wait elapses; inbound messages may stop at any time
\* The fair machine is followed with a single user writing: inbound messages
\* are those of LiveUser, in the public channel or the private one.
LiveUser == "u1"
LiveOnMessage == OnMessage /\ last'.msg.author = LiveUser
LiveNext ==
  \/ LiveOnMessage
  \/ \E t \in Tasks : Echo(t)
  \/ \E t \in Tasks : Ask(t)
  \/ \E t \in Tasks : AddPending(t)
  \/ \E t \in Tasks : EnterWait(t)
  \/ \E t \in Tasks : WaitTimesOut(t)
  \/ \E t \in Tasks : ReplyReturned(t)
  \/ \E t \in Tasks : TimeoutRaised(t)
  \/ \E t \in Tasks : Return(t)
  \/ \E t \in Tasks : Raise(t)
  \/ \E t \in Tasks : Close(t)
FairSpec ==
  Init /\ [][LiveNext]_vars /\ \A t \in 1..MaxTasks : WF_vars(WorkerStep(t))

\* ---- properties ----
MsgKey(m) == Key(m.author, m.channel_id)
WorkerKey(w) == Key(w.user_id, w.channel_id)
Prompt == PromptText \o PromptSuffix
endswith(s, p) ==
  Len(s) >= Len(p) /\ SubSeq(s, Len(s) - Len(p) + 1, Len(s)) = p
\* the step is on_message handling one inbound message
Delivery == delivered' = delivered + 1

\* C1: when the registry holds an entry for the message's (user, channel)
\* key, on_message removes that entry, completes its handle with the message
\* and submits no task, whatever the text; a message is only matched as a
\* command (started, dropped, parse failure) when no entry was found.
C1_ResolveBeforeMatch ==
  [][Delivery =>
       LET m == last'.msg
           k == MsgKey(m)
       IN /\ k \in DOMAIN conversations =>
               /\ k \notin DOMAIN conversations'
               /\ last'.disposition = "resolved"
               /\ last'.handle = conversations[k]
               /\ conversations[k] \in DOMAIN completions'
               /\ completions'[conversations[k]].result = m
               /\ Len(workers') = Len(workers)
          /\ last'.disposition \in {"started", "dropped", "raised"} =>
               k \notin DOMAIN conversations]_vars

\* a message whose text is a well-formed command was consumed as a reply
C1_Witness ==
  /\ last.disposition = "resolved"
  /\ parse_command(Prefix, last.msg.content).name = CliName

\* C2: a message from the same user in the same channel, arriving after the
\* prompt was sent and before the wait timed out, is what the ask returns:
\* the waiting worker is woken with that message.  One send carrying the
\* prompt precedes it.
C2_ReplyAfterPromptIsReturned ==
  [][\A t \in DOMAIN workers :
       (/\ Delivery
        /\ workers[t].pc \in {"prompted", "registered", "waiting"}
        /\ MsgKey(last'.msg) = WorkerKey(workers[t]))
       => /\ workers[t].posts # <<>>
          /\ endswith(workers[t].posts[Len(workers[t].posts)].content, Prompt)
          /\ workers'[t].pc = "notified"
          /\ workers'[t].handle \in DOMAIN completions'
          /\ completions'[workers'[t].handle].result = last'.msg]_vars

\* C3: when a command invocation has ended, on whatever path, nothing it
\* emitted is left in its buffer.
C3_NothingLeftUnsent ==
  \A t \in DOMAIN workers :
    workers[t].pc = "done" => workers[t].echo_buffer = <<>>

\* C4: no send carries empty or whitespace-only content.
C4_NoBlankSend ==
  \A t \in DOMAIN workers :
    \A i \in DOMAIN workers[t].posts :
      strip(workers[t].posts[i].content) # <<>>

\* a flush found only whitespace in the buffer, and nothing was sent
C4_Witness ==
  \E t \in DOMAIN workers :
    /\ workers[t].posts = <<>>
    /\ \E i \in DOMAIN workers[t].flushed :
         /\ workers[t].flushed[i] # <<>>
         /\ strip(workers[t].flushed[i]) = <<>>

ContainsText(s, p) ==
  \E i \in 1..(Len(s) + 1) :
    i + Len(p) - 1 <= Len(s) /\ SubSeq(s, i, i + Len(p) - 1) = p
\* the command only called echo without flush, and (if it ended) returned
EchoOnly(w) ==
  \A i \in DOMAIN w.trace : w.trace[i] \in {"echo", "return"}
Echoes(w) == Cardinality({i \in DOMAIN w.trace : w.trace[i] = "echo"})

\* C5 as stated: a command that only emitted fragments (at least one) and
\* returned has caused exactly one send, on the originating channel, carrying
\* the fragments in order.
C5_ExactlyOneSend ==
  \A t \in DOMAIN workers :
    LET w == workers[t] IN
    (w.outcome = "ok" /\ EchoOnly(w) /\ Echoes(w) >= 1) =>
       w.posts = << [channel_id |-> w.origin.channel_id,
                     content |-> w.emitted, ok |-> TRUE] >>

\* C5 amended: emitting only appends to the buffer and sends nothing; after
\* the command returned there is exactly one send, on the originating
\* channel, carrying the fragments in order, unless they are all blank, and
\* then there is none.
C5_OneSendUnlessBlank ==
  \A t \in DOMAIN workers :
    LET w == workers[t] IN
    EchoOnly(w) =>
      /\ w.outcome = "none" => w.posts = <<>> /\ w.echo_buffer = w.emitted
      /\ w.outcome = "ok" =>
           /\ w.echo_buffer = <<>>
           /\ w.posts =
                IF strip(w.emitted) = <<>> THEN <<>>
                ELSE << [channel_id |-> w.origin.channel_id,
                         content |-> w.emitted, ok |-> TRUE] >>

\* two fragments, one send
C5_Witness ==
  \E t \in DOMAIN workers :
    /\ workers[t].trace = <<"echo", "echo", "return">>
    /\ Len(workers[t].posts) = 1
    /\ workers[t].posts[1].content = <<"a", "\n", "a", "\n">>

\* the command's handle is in the registry
Registered(t) ==
  \E k \in DOMAIN conversations : conversations[k][1] = t

\* C6: while a command's entry is in the registry its buffer is empty and
\* everything it emitted has been flushed, the last send being the text
\* pending at the ask, prompt last, on the conversation's channel.  A prompt
\* always ends its message: what is emitted after the reply goes out later.
C6_FlushBeforeWait ==
  \A t \in DOMAIN workers :
    LET w == workers[t] IN
    /\ Registered(t) =>
         /\ w.echo_buffer = <<>>
         /\ Concat(w.flushed) = w.emitted
         /\ w.posts # <<>>
         /\ w.posts[Len(w.posts)] =
              [channel_id |-> w.channel_id,
               content |-> w.flushed[Len(w.flushed)], ok |-> TRUE]
         /\ endswith(w.posts[Len(w.posts)].content, Prompt)
    /\ Cardinality({i \in DOMAIN w.posts : endswith(w.posts[i].content, Prompt)})
         = w.asks

\* output, then a prompt: both went out together before the wait
C6_Witness ==
  \E t \in DOMAIN workers :
    /\ Registered(t)
    /\ workers[t].pc = "waiting"
    /\ workers[t].posts = << [channel_id |-> workers[t].channel_id,
                              content |-> <<"a", "\n">> \o Prompt,
                              ok |-> TRUE] >>

\* C7: a command whose wait timed out has had no error text sent, and right
\* after its cleanup the registry holds no entry for its key; when every
\* submitted task has finished the registry is empty.
C7_RegistryEmptyWhenIdle ==
  /\ []((\A t \in DOMAIN workers : workers[t].pc = "done")
          => DOMAIN conversations = {})
  /\ [](\A t \in DOMAIN workers :
          workers[t].outcome = "timeout" =>
            \A i \in DOMAIN workers[t].posts :
              ~ContainsText(workers[t].posts[i].content, ErrorText))
  /\ [][\A t \in DOMAIN workers :
          (workers[t].pc = "timedout" /\ workers'[t].pc = "done")
            => WorkerKey(workers[t]) \notin DOMAIN conversations']_vars

\* two commands shared one key, both waits timed out, both tasks are over
C7_Witness ==
  /\ Len(workers) = 2
  /\ WorkerKey(workers[1]) = WorkerKey(workers[2])
  /\ \A t \in DOMAIN workers :
       workers[t].pc = "done" /\ workers[t].outcome = "timeout"

\* C8: a message completes only a handle registered by a command of the
\* message's author: entries and handles of other users are left as they
\* were, and every reply a command received was written by its own user.
C8_RepliesStayWithTheirUser ==
  /\ [](\A h \in DOMAIN completions :
          /\ h[1] \in DOMAIN workers
          /\ completions[h].result.author = workers[h[1]].user_id)
  /\ [](\A t \in DOMAIN workers :
          workers[t].message.author = workers[t].user_id)
  /\ [][Delivery =>
          /\ \A k \in DOMAIN conversations :
               k[1] # last'.msg.author =>
                 k \in DOMAIN conversations' /\ conversations'[k] = conversations[k]
          /\ \A h \in DOMAIN completions' :
               workers[h[1]].user_id # last'.msg.author =>
                 h \in DOMAIN completions /\ completions'[h] = completions[h]
          /\ \A t \in DOMAIN workers :
               workers[t].user_id # last'.msg.author => workers'[t] = workers[t]]_vars

\* two users in one channel; the command submitted second got its reply
\* while the one submitted first is still waiting for its own
C8_Witness ==
  /\ Len(workers) = 2
  /\ workers[1].user_id # workers[2].user_id
  /\ workers[1].channel_id = workers[2].channel_id
  /\ workers[1].pc = "waiting" /\ Registered(1)
  /\ workers[2].replies # <<>>

\* C9: a command that ended with a usage error has had the error text sent
\* on its channel.
C9_UsageErrorIsSent ==
  \A t \in DOMAIN workers :
    workers[t].outcome = "usage" =>
      \E i \in DOMAIN workers[t].posts :
        /\ workers[t].posts[i].channel_id = workers[t].channel_id
        /\ ContainsText(workers[t].posts[i].content, ErrorText)

\* C10: once a wait has timed out, no later message with the same key is
\* consumed as the reply to that wait.
C10_NoReplyAfterTimeout ==
  [][\A t \in DOMAIN workers :
       (/\ Delivery
        /\ workers[t].pc = "timedout" \/ workers[t].outcome = "timeout"
        /\ MsgKey(last'.msg) = WorkerKey(workers[t]))
       => ~(last'.disposition = "resolved" /\ last'.handle = workers[t].handle)]_vars

\* the step ends task t
Ends(t) == workers[t].pc # "done" /\ workers'[t].pc = "done"

\* C11: no task ends with an exception leaving handle_command, and the step
\* that ends a task, whatever its outcome, changes no other task and no
\* registry entry of another command.
C11_OutcomesContained ==
  /\ [](\A t \in DOMAIN workers : ~workers[t].leaked)
  /\ [][\A t \in DOMAIN workers :
          Ends(t) =>
            /\ \A u \in DOMAIN workers : u # t => workers'[u] = workers[u]
            /\ \A k \in DOMAIN conversations :
                 conversations[k][1] # t =>
                   /\ k \in DOMAIN conversations'
                   /\ conversations'[k] = conversations[k]]_vars

\* C12: wait returns False only when complete_with was not called on the
\* handle before the timeout, True only when it was, and then result is set.
C12_WaitTrueIffCompleted ==
  /\ [][\A t \in DOMAIN workers :
          (workers[t].pc = "waiting" /\ workers'[t].pc = "timedout")
            => workers[t].handle \notin DOMAIN completions]_vars
  /\ [](\A t \in DOMAIN workers :
          workers[t].pc = "notified" =>
            /\ workers[t].handle \in DOMAIN completions
            /\ completions[workers[t].handle].result # NoMsg)

\* C13: the cleanup after a timed-out wait removes no registry entry other
\* than the one holding the handle it waited on.
C13_TimeoutRemovesOnlyOwnEntry ==
  [][\A t \in DOMAIN workers :
       (workers[t].pc = "timedout" /\ workers'[t].pc = "done") =>
         \A k \in DOMAIN conversations :
           conversations[k] # workers[t].handle =>
             k \in DOMAIN conversations' /\ conversations'[k] = conversations[k]]_vars

\* C14: a message with no pending conversation whose text starts with the
\* prefix and fails tokenization starts a command invocation.
C14_BadQuoteStartsCommand ==
  (/\ last.disposition \notin {"none", "resolved"}
   /\ startswith(last.msg.content, Prefix)
   /\ parse_command(Prefix, last.msg.content).raised)
  => last.disposition = "started"

RECURSIVE SentLength(_)
SentLength(posts) ==
  IF posts = <<>> THEN 0
  ELSE Len(Head(posts).content) + SentLength(Tail(posts))

\* C15: a flush whose send fails leaves the buffer empty, and over the whole
\* run the text handed to the transport, failed attempts included, plus the
\* text still buffered never exceeds the text emitted: nothing goes into
\* two send attempts.
C15_NoResendAfterFailure ==
  /\ [](\A t \in DOMAIN workers :
          SentLength(workers[t].posts) + Len(workers[t].echo_buffer)
            <= Len(workers[t].emitted))
  /\ [][\A t \in DOMAIN workers :
          (/\ Len(workers'[t].posts) > Len(workers[t].posts)
           /\ ~workers'[t].posts[Len(workers'[t].posts)].ok)
          => workers'[t].echo_buffer = <<>>]_vars

\* a send failed, the command went on, and a later flush went through
C15_Witness ==
  \E t \in DOMAIN workers :
    /\ Len(workers[t].posts) = 2
    /\ ~workers[t].posts[1].ok
    /\ workers[t].posts[2].ok
    /\ workers[t].posts[1].content \o workers[t].posts[2].content
         = workers[t].emitted

\* C16: no handle is completed twice, one inbound message completes at most
\* one handle, and a message whose key has no entry completes nothing and
\* raises nothing out of on_message.
C16_CompletedAtMostOnce ==
  /\ [](\A h \in DOMAIN completions : completions[h].count = 1)
  /\ [][Delivery =>
          /\ Cardinality({h \in DOMAIN completions' :
                 h \notin DOMAIN completions
                   \/ completions'[h] # completions[h]}) <= 1
          /\ MsgKey(last'.msg) \notin DOMAIN conversations =>
               /\ completions' = completions
               /\ conversations' = conversations
               /\ last'.disposition # "raised"]_vars

\* the conversation is waiting for a reply
InAsk(w) ==
  w.pc \in {"prompted", "registered", "waiting", "notified", "timedout"}

\* C17: a context creates at most one private channel; once it has, its
\* channel is the private one, the prompt of an ask in progress was sent
\* there, its registry entry is keyed by it, and a message of the same user
\* in the channel the command came from leaves the wait alone.
C17_EscalatesOnce ==
  /\ [](\A t \in DOMAIN workers :
          LET w == workers[t] IN
          /\ w.channels_created <= 1
          /\ w.is_safe <=> w.channels_created = 1
          /\ w.is_safe =>
               /\ w.channel_id = PrivateChannel(w.user_id)
               /\ InAsk(w) =>
                    w.posts[Len(w.posts)].channel_id = PrivateChannel(w.user_id)
          /\ \A k \in DOMAIN conversations :
               conversations[k][1] = t => k = WorkerKey(w))
  /\ [][\A t \in DOMAIN workers :
          (/\ Delivery
           /\ workers[t].is_safe
           /\ InAsk(workers[t])
           /\ last'.msg.author = workers[t].user_id
           /\ last'.msg.channel_id = workers[t].origin.channel_id
           /\ workers[t].origin.channel_id # workers[t].channel_id)
          => /\ workers'[t] = workers[t]
             /\ last'.handle[1] # t]_vars

\* two hidden asks, one private channel; the second wait is on while the
\* user writes in the channel the command came from
C17_Witness ==
  \E t \in DOMAIN workers :
    /\ workers[t].trace = <<"ask_hidden", "ask_hidden">>
    /\ workers[t].channels_created = 1
    /\ workers[t].pc = "waiting" /\ Registered(t)
    /\ last.msg.author = workers[t].user_id
    /\ last.msg.channel_id = workers[t].origin.channel_id
    /\ workers[t].origin.channel_id = PublicChannel

NonBlank(chunk) == strip(chunk) # <<>>
PostContents(w) == [i \in DOMAIN w.posts |-> w.posts[i].content]

\* C18: the chunks a context flushed, in order, followed by what is still
\* buffered, are the text the command emitted, in order; its sends, in
\* order, carry exactly the non-blank chunks, in order.
C18_SendsInEmissionOrder ==
  \A t \in DOMAIN workers :
    LET w == workers[t] IN
    /\ Concat(w.flushed) \o w.echo_buffer = w.emitted
    /\ PostContents(w) = SelectSeq(w.flushed, NonBlank)

\* output sent first, a prompt sent second
C18_Witness ==
  \E t \in DOMAIN workers :
    /\ Len(workers[t].posts) = 2
    /\ workers[t].posts[1].content = <<"a", "\n">>
    /\ workers[t].posts[2].content = Prompt
    /\ workers[t].posts[1].ok /\ workers[t].posts[2].ok

\* C19: every submitted task finishes, whether or not another message ever
\* arrives.
C19_EveryTaskFinishes ==
  \A t \in 1..MaxTasks :
    (t \in DOMAIN workers) ~> (t \in DOMAIN workers /\ workers[t].pc = "done")

\* a task ended by the timeout of its wait, with no message after the one
\* that started it
C19_Witness ==
  /\ delivered = 1
  /\ Len(workers) = 1
  /\ workers[1].pc = "done" /\ workers[1].outcome = "timeout"

====
